---- MODULE Spec2Model ----
(***************************************************************************)
(* A model of drgn's Linux memory-management helpers                       *)
(* (drgn/helpers/linux/mm.py): the compound-page classification, the page  *)
(* flag getters and decoder, the struct page array base (_page0), the page *)
(* enumerator (for_each_page) and the address conversions; and of the      *)
(* kprobe objects of drgn/ftrace.py.                                       *)
(*                                                                         *)
(* The debugged target is part of the state: `mem` is the memory of the    *)
(* struct page array, `syms` is what prog[name] resolves.  One analysis    *)
(* session is modelled: `cache` is prog.cache, `gens` are the generator    *)
(* objects for_each_page() has returned, `last` is the helper call that    *)
(* ran last with what it returned, read and looked up.  `loop` is a caller  *)
(* iterating over for_each_page(); `tracefs` is the tracing filesystem and *)
(* `probe` a Kprobe object with the with statement that uses it.           *)
(***************************************************************************)
EXTENDS Integers, Sequences, FiniteSets, TLC

VARIABLES mem, syms, cache, gens, last, loop, tracefs, probe

vars == <<mem, syms, cache, gens, last, loop, tracefs, probe>>

-----------------------------------------------------------------------------
(* Bounds of the model. *)

\* struct page descriptors of the modelled array that helpers are called on;
\* one more descriptor follows them so that page[1] of the last one is mapped.
NPages == 2

\* the non-zero value the target stores in a compound_order field
MaxOrder == 3

(* Size of struct page in bytes: the stride of the addresses for_each_page   *)
(* prints in its docstring (0x...c0000, 0x...c0040).                         *)
SizeofStructPage == 64

\* address of the first modelled descriptor; descriptors are naturally aligned
MemMapBase == 16 * SizeofStructPage

PageIdx == 0 .. (NPages - 1)

PageAddr(i) == MemMapBase + i * SizeofStructPage

Pages == {PageAddr(i) : i \in PageIdx}

\* the index of the descriptor at an address
IndexOf(page) == (page - MemMapBase) \div SizeofStructPage

\* pointer arithmetic on struct page *: page + n
PtrAdd(page, n) == page + n * SizeofStructPage

-----------------------------------------------------------------------------
(* Integer operators of the helpers. *)

RECURSIVE BitAnd(_, _)
\* a & b on non-negative integers
BitAnd(a, b) ==
    IF a = 0 \/ b = 0 THEN 0
    ELSE (a % 2) * (b % 2) + 2 * BitAnd(a \div 2, b \div 2)

\* a << n
Shl(a, n) == a * (2 ^ n)

-----------------------------------------------------------------------------
(* What a helper call touches: reads of target memory are <<field, address>>. *)

RdFlags(page) == <<"flags", page>>
RdHead(page) == <<"compound_head", page>>
RdOrder(page) == <<"compound_order", page>>

\* page.flags, page.compound_head, page.compound_order of the target
FlagsOf(page) == mem.flags[IndexOf(page)]
HeadOf(page) == mem.compound_head[IndexOf(page)]
OrderOf(page) == mem.compound_order[IndexOf(page)]

\* page.flags & (1 << page.prog_["PG_head"])
HeadFlag(page) == BitAnd(FlagsOf(page), Shl(1, syms["PG_head"]))

-----------------------------------------------------------------------------
(* The compound-page helpers.  Each operator is one helper called on the     *)
(* struct page * `page` against the current target; it gives what the helper *)
(* returns (ret) and the target memory it read (reads).                      *)

\* _page_is_fake_head with the comparison inverted (== for !=)
page_is_fake_head_inverted(page) ==
    LET head == HeadOf(PtrAdd(page, 1))
    IN  [ret   |-> (head % 2 = 1) /\ (head - 1 = page),
         reads |-> {RdHead(PtrAdd(page, 1))}]

\* _page_is_fake_head comparing the tagged word itself with the page
page_is_fake_head_tagged(page) ==
    LET head == HeadOf(PtrAdd(page, 1))
    IN  [ret   |-> (head % 2 = 1) /\ (head # page),
         reads |-> {RdHead(PtrAdd(page, 1))}]

\* _page_is_fake_head(page): the compound_head word of page[1]
page_is_fake_head(page) ==
    LET head == HeadOf(PtrAdd(page, 1))
    IN  [ret   |-> (head % 2 = 1) /\ (head - 1 # page),
         reads |-> {RdHead(PtrAdd(page, 1))}]

\* PageCompound that looks at the PG_head bit only
PageCompound_flag_only(page) ==
    [ret |-> HeadFlag(page) # 0, reads |-> {RdFlags(page)}]

PageCompound(page) ==
    IF HeadFlag(page) # 0
    THEN [ret |-> TRUE, reads |-> {RdFlags(page)}]
    ELSE [ret   |-> HeadOf(page) % 2 = 1,
          reads |-> {RdFlags(page), RdHead(page)}]

\* PageHead as it was before fake heads were handled: the PG_head bit alone
PageHead_flag_only(page) ==
    [ret |-> HeadFlag(page) # 0, reads |-> {RdFlags(page)}]

PageHead(page) ==
    IF HeadFlag(page) # 0
    THEN LET fake == page_is_fake_head(page)
         IN  [ret |-> ~fake.ret, reads |-> {RdFlags(page)} \cup fake.reads]
    ELSE [ret |-> FALSE, reads |-> {RdFlags(page)}]

PageTail(page) ==
    IF HeadOf(page) % 2 = 1
    THEN [ret |-> TRUE, reads |-> {RdHead(page)}]
    ELSE IF HeadFlag(page) # 0
    THEN LET fake == page_is_fake_head(page)
         IN  [ret   |-> fake.ret,
              reads |-> {RdHead(page), RdFlags(page)} \cup fake.reads]
    ELSE [ret |-> FALSE, reads |-> {RdHead(page), RdFlags(page)}]

\* compound_head that resolves a fake head to the tagged word (no head - 1)
compound_head_tagged(page) ==
    LET head == HeadOf(page)
    IN  IF head % 2 = 1
        THEN [ret |-> head - 1, reads |-> {RdHead(page)}]
        ELSE IF HeadFlag(page) # 0
        THEN LET next == HeadOf(PtrAdd(page, 1))
                 rd   == {RdHead(page), RdFlags(page), RdHead(PtrAdd(page, 1))}
             IN  IF next % 2 = 1
                 THEN [ret |-> next, reads |-> rd]
                 ELSE [ret |-> page, reads |-> rd]
        ELSE [ret |-> page, reads |-> {RdHead(page), RdFlags(page)}]

compound_head(page) ==
    LET head == HeadOf(page)
    IN  IF head % 2 = 1
        THEN [ret |-> head - 1, reads |-> {RdHead(page)}]
        ELSE IF HeadFlag(page) # 0
        THEN LET next == HeadOf(PtrAdd(page, 1))
                 rd   == {RdHead(page), RdFlags(page), RdHead(PtrAdd(page, 1))}
             IN  IF next % 2 = 1
                 THEN [ret |-> next - 1, reads |-> rd]
                 ELSE [ret |-> page, reads |-> rd]
        ELSE [ret |-> page, reads |-> {RdHead(page), RdFlags(page)}]

\* compound_order that tests PageCompound where the code tests PageHead
compound_order_any_compound(page) ==
    LET c == PageCompound(page)
    IN  IF ~c.ret
        THEN [ret |-> 0, reads |-> c.reads]
        ELSE [ret   |-> OrderOf(PtrAdd(page, 1)),
              reads |-> c.reads \cup {RdOrder(PtrAdd(page, 1))}]

compound_order(page) ==
    LET h == PageHead(page)
    IN  IF ~h.ret
        THEN [ret |-> 0, reads |-> h.reads]
        ELSE [ret   |-> OrderOf(PtrAdd(page, 1)),
              reads |-> h.reads \cup {RdOrder(PtrAdd(page, 1))}]

compound_nr(page) ==
    LET h == PageHead(page)
    IN  IF ~h.ret
        THEN [ret |-> 1, reads |-> h.reads]
        ELSE [ret   |-> Shl(1, OrderOf(PtrAdd(page, 1))),
              reads |-> h.reads \cup {RdOrder(PtrAdd(page, 1))}]

-----------------------------------------------------------------------------
(* The session and the target of the compound-page specification. *)

\* no helper call is held
Idle ==
    [op |-> "idle", name |-> "", arg |-> 0, err |-> "", ret |-> 0,
     reads |-> {}, lookups |-> {}]

\* the record of a finished helper call
Called(op, arg, r) ==
    [op |-> op, name |-> "", arg |-> arg, err |-> "", ret |-> r.ret,
     reads |-> r.reads, lookups |-> {"PG_head"}]

\* enum pageflags of the target build the compound-page helpers are run on
CompoundSyms == [PG_head |-> 2]

\* the values of a compound_head word: untagged, or a descriptor's address | 1
HeadWords == {0} \cup {p + 1 : p \in Pages}

ZeroMem ==
    [flags          |-> [i \in PageIdx |-> 0],
     compound_head  |-> [i \in 0 .. NPages |-> 0],
     compound_order |-> [i \in 1 .. NPages |-> 0]]

InitCompound ==
    /\ mem = ZeroMem
    /\ syms = CompoundSyms
    /\ cache = {}
    /\ gens = <<>>
    /\ last = Idle
    /\ loop = <<>>
    /\ tracefs = <<>>
    /\ probe = <<>>

\* the live target sets or clears PG_head of a descriptor
TargetTogglePageHead(i) ==
    /\ last.op = "idle"
    /\ LET bit == Shl(1, syms["PG_head"])
           f   == mem.flags[i]
       IN  mem' = [mem EXCEPT !.flags[i] =
                      IF BitAnd(f, bit) # 0 THEN f - bit ELSE f + bit]
    /\ UNCHANGED <<syms, cache, gens, last, loop, tracefs, probe>>

\* the live target stores a compound_head word
TargetWriteHead(i, w) ==
    /\ last.op = "idle"
    /\ mem.compound_head[i] # w
    /\ mem' = [mem EXCEPT !.compound_head[i] = w]
    /\ UNCHANGED <<syms, cache, gens, last, loop, tracefs, probe>>

\* the live target stores a compound_order field
TargetWriteOrder(i, o) ==
    /\ last.op = "idle"
    /\ mem.compound_order[i] # o
    /\ mem' = [mem EXCEPT !.compound_order[i] = o]
    /\ UNCHANGED <<syms, cache, gens, last, loop, tracefs, probe>>

CallPageCompound(page) ==
    /\ last.op = "idle"
    /\ last' = Called("PageCompound", page, PageCompound(page))
    /\ UNCHANGED <<mem, syms, cache, gens, loop, tracefs, probe>>

CallPageHead(page) ==
    /\ last.op = "idle"
    /\ last' = Called("PageHead", page, PageHead(page))
    /\ UNCHANGED <<mem, syms, cache, gens, loop, tracefs, probe>>

CallPageTail(page) ==
    /\ last.op = "idle"
    /\ last' = Called("PageTail", page, PageTail(page))
    /\ UNCHANGED <<mem, syms, cache, gens, loop, tracefs, probe>>

CallCompoundHead(page) ==
    /\ last.op = "idle"
    /\ last' = Called("compound_head", page, compound_head(page))
    /\ UNCHANGED <<mem, syms, cache, gens, loop, tracefs, probe>>

CallCompoundOrder(page) ==
    /\ last.op = "idle"
    /\ last' = Called("compound_order", page, compound_order(page))
    /\ UNCHANGED <<mem, syms, cache, gens, loop, tracefs, probe>>

CallCompoundNr(page) ==
    /\ last.op = "idle"
    /\ last' = Called("compound_nr", page, compound_nr(page))
    /\ UNCHANGED <<mem, syms, cache, gens, loop, tracefs, probe>>

\* the caller takes the result of the call
Return ==
    /\ last.op # "idle"
    /\ last' = Idle
    /\ UNCHANGED <<mem, syms, cache, gens, loop, tracefs, probe>>

NextCompound ==
    \/ \E i \in PageIdx : TargetTogglePageHead(i)
    \/ \E i \in 0 .. NPages, w \in HeadWords : TargetWriteHead(i, w)
    \/ \E i \in 1 .. NPages, o \in {0, MaxOrder} : TargetWriteOrder(i, o)
    \/ \E page \in Pages : CallPageCompound(page)
    \/ \E page \in Pages : CallPageHead(page)
    \/ \E page \in Pages : CallPageTail(page)
    \/ \E page \in Pages : CallCompoundHead(page)
    \/ \E page \in Pages : CallCompoundOrder(page)
    \/ \E page \in Pages : CallCompoundNr(page)
    \/ Return

SpecCompound == InitCompound /\ [][NextCompound]_vars

-----------------------------------------------------------------------------
(* Properties of the compound-page helpers (SpecCompound). *)

\* the descriptor carries PG_head and its own compound_head word is tagged
HeadFlagOnTail(page) == HeadFlag(page) # 0 /\ HeadOf(page) % 2 = 1

\* C1, as claimed: for every descriptor and every content of target memory,
\* PageHead and PageTail are never both true.
C1_HeadTailExclusive ==
    \A page \in Pages : ~(PageHead(page).ret /\ PageTail(page).ret)

\* C1, amended: PageHead and PageTail are never both true of a descriptor
\* unless it has both its PG_head bit set and its own compound_head word
\* tagged (low bit set).
C1_HeadTailExclusiveUnlessFlagOnTail ==
    \A page \in Pages :
        ~HeadFlagOnTail(page) => ~(PageHead(page).ret /\ PageTail(page).ret)

\* PageHead was called on a fake head: it answered false, PageTail says true
C1_Witness ==
    /\ last.op = "PageHead"
    /\ HeadFlag(last.arg) # 0
    /\ ~HeadFlagOnTail(last.arg)
    /\ last.ret = FALSE
    /\ PageTail(last.arg).ret

\* C2, as claimed: compound_head(compound_head(page)) = compound_head(page)
\* for every descriptor and every content of target memory.
C2_CompoundHeadIdempotent ==
    \A page \in Pages :
        compound_head(compound_head(page).ret).ret = compound_head(page).ret

\* C2, amended: compound_head(compound_head(page)) = compound_head(page)
\* whenever the descriptor compound_head(page) returns is not itself a tail
\* (PageTail is false of it).
C2_CompoundHeadIdempotentOnHeads ==
    \A page \in Pages :
        LET head == compound_head(page).ret
        IN  ~PageTail(head).ret => compound_head(head).ret = head

\* compound_head resolved a tail to another descriptor, which is its own head
C2_Witness ==
    /\ last.op = "compound_head"
    /\ last.ret # last.arg
    /\ ~PageTail(last.ret).ret
    /\ compound_head(last.ret).ret = last.ret

\* the descriptor N carries PG_head and the compound_head word of N+1 is
\* tagged with another address than N's
FakeHeadCase(page) ==
    LET w == HeadOf(PtrAdd(page, 1))
    IN  HeadFlag(page) # 0 /\ w % 2 = 1 /\ w - 1 # page

\* C3: for a descriptor N with PG_head set whose next descriptor's
\* compound_head word W is tagged and W - 1 is not N's address, PageHead(N) is
\* false and PageTail(N) is true; and when N's own compound_head word is
\* untagged, compound_head(N) is the descriptor at W - 1.
C3_FakeHeadCorrection ==
    \A page \in Pages :
        FakeHeadCase(page) =>
            /\ PageHead(page).ret = FALSE
            /\ PageTail(page).ret = TRUE
            /\ HeadOf(page) % 2 = 0 =>
                   compound_head(page).ret = HeadOf(PtrAdd(page, 1)) - 1

\* compound_head was called on a fake head with an untagged own word and
\* resolved it through the next descriptor's word
C3_Witness ==
    /\ last.op = "compound_head"
    /\ FakeHeadCase(last.arg)
    /\ HeadOf(last.arg) % 2 = 0
    /\ last.ret = HeadOf(PtrAdd(last.arg, 1)) - 1
    /\ last.ret # last.arg

\* the descriptor N carries PG_head, its own compound_head word is untagged
\* and the word of N+1 is address_of(N) | 1
GenuineTwoPageCase(page) ==
    /\ HeadFlag(page) # 0
    /\ HeadOf(page) % 2 = 0
    /\ HeadOf(PtrAdd(page, 1)) = page + 1

\* C4: a descriptor N with PG_head set, an untagged own compound_head word
\* and a next descriptor whose word is address_of(N) | 1 is not a fake head:
\* PageHead(N) is true, PageTail(N) is false and compound_head(N) is N.
C4_GenuineTwoPageCompound ==
    \A page \in Pages :
        GenuineTwoPageCase(page) =>
            /\ PageHead(page).ret = TRUE
            /\ PageTail(page).ret = FALSE
            /\ compound_head(page).ret = page

\* PageHead was called on the head of a genuine two-page compound: true
C4_Witness ==
    /\ last.op = "PageHead"
    /\ GenuineTwoPageCase(last.arg)
    /\ last.ret = TRUE

\* C5: whenever PageHead(page) is false, compound_order(page) is 0 and
\* compound_nr(page) is 1 whatever the compound_order field of the next
\* descriptor holds, and neither helper reads that field.
C5_OrderZeroUnlessHead ==
    \A page \in Pages :
        ~PageHead(page).ret =>
            /\ compound_order(page).ret = 0
            /\ compound_nr(page).ret = 1
            /\ RdOrder(PtrAdd(page, 1)) \notin compound_order(page).reads
            /\ RdOrder(PtrAdd(page, 1)) \notin compound_nr(page).reads

\* compound_order was called on a fake head whose next descriptor stores a
\* non-zero order: it returned 0 without reading the field
C5_Witness ==
    /\ last.op = "compound_order"
    /\ FakeHeadCase(last.arg)
    /\ OrderOf(PtrAdd(last.arg, 1)) = MaxOrder
    /\ last.ret = 0
    /\ RdOrder(PtrAdd(last.arg, 1)) \notin last.reads

-----------------------------------------------------------------------------
(* The page flag getters and decode_page_flags.                              *)

\* bits of the flags word of the modelled descriptor
FlagWordBits == 4

FlagWords == 0 .. (2 ^ FlagWordBits - 1)

(* enum pageflags of a target build: its enumerators <<name, value>> in      *)
(* declaration order.  The kernel declares the aliases after __NR_PAGEFLAGS. *)
PlainBuild ==
    << <<"PG_locked", 0>>, <<"PG_uptodate", 1>>, <<"PG_dirty", 2>>,
       <<"__NR_PAGEFLAGS", 3>> >>

IdleFlagBuild ==
    << <<"PG_locked", 0>>, <<"PG_uptodate", 1>>, <<"PG_dirty", 2>>,
       <<"PG_young", 3>>, <<"__NR_PAGEFLAGS", 4>> >>

AliasBuild ==
    << <<"PG_locked", 0>>, <<"PG_uptodate", 1>>, <<"PG_dirty", 2>>,
       <<"__NR_PAGEFLAGS", 3>>,
       <<"PG_savepinned", 2>>, <<"PG_reported", 1>> >>

Builds == {PlainBuild, IdleFlagBuild, AliasBuild}

EnumNames(enum) == {enum[i][1] : i \in DOMAIN enum}

\* the value of the enumerator `name` of `enum`
EnumValue(enum, name) ==
    enum[CHOOSE i \in DOMAIN enum : enum[i][1] = name][2]

\* what prog[...] resolves on a target built with `enum` as enum pageflags:
\* every enumerator by its name, and the type itself
BuildSyms(enum) ==
    [n \in EnumNames(enum) \cup {"enum pageflags"} |->
        IF n = "enum pageflags" THEN enum ELSE EnumValue(enum, n)]

\* the flags the modelled getters ask for: PageDirty, PageSavePinned,
\* PageYoung, PageReported
GetterFlags == {"PG_dirty", "PG_savepinned", "PG_young", "PG_reported"}

\* the descriptor the flag helpers are called on
FlagPage == PageAddr(0)

\* a getter that tests page.flags & flag (the bit number used as the mask)
PageFlagGetter_no_shift(name, page) ==
    IF name \notin DOMAIN syms
    THEN [ret |-> FALSE, reads |-> {}, lookups |-> {name}]
    ELSE [ret     |-> BitAnd(FlagsOf(page), syms[name]) # 0,
          reads   |-> {RdFlags(page)},
          lookups |-> {name}]

(* PageActive ... PageYoung: the generated getters differ in the name of the *)
(* enumerator only.  prog[name] raises KeyError for a name the target does   *)
(* not define, which the getter catches.                                     *)
PageFlagGetter(name, page) ==
    IF name \notin DOMAIN syms
    THEN [ret |-> FALSE, reads |-> {}, lookups |-> {name}]
    ELSE [ret     |-> BitAnd(FlagsOf(page), Shl(1, syms[name])) # 0,
          reads   |-> {RdFlags(page)},
          lookups |-> {name}]

RECURSIVE decode_flags(_, _, _)
(* drgn.helpers.common.format.decode_enum_type_flags(value, type): the names *)
(* of the enumerators of `type`, in the order the type declares them, whose  *)
(* bit (1 << enumerator value) is set in `value`; `rest` is what remains of  *)
(* `value` without the bits of the enumerators (shown in hex when not 0).    *)
(* The example in decode_page_flags's docstring is such a result:            *)
(* ...|PG_reclaim|PG_swapbacked|PG_readahead|PG_savepinned|PG_isolated|      *)
(* PG_reported, with the aliases after the flags they alias.                 *)
decode_flags(value, enum, i) ==
    IF i > Len(enum) THEN [names |-> <<>>, rest |-> value]
    ELSE LET flag == Shl(1, enum[i][2])
             tail == decode_flags(value, enum, i + 1)
             rest == IF BitAnd(tail.rest, flag) # 0
                     THEN tail.rest - flag ELSE tail.rest
         IN  IF BitAnd(value, flag) # 0
             THEN [names |-> <<enum[i][1]>> \o tail.names, rest |-> rest]
             ELSE tail

decode_enum_type_flags(value, enum) == decode_flags(value, enum, 1)

\* decode_page_flags that passes page.flags unmasked
decode_page_flags_unmasked(page) ==
    [ret     |-> decode_enum_type_flags(FlagsOf(page), syms["enum pageflags"]),
     reads   |-> {RdFlags(page)},
     lookups |-> {"__NR_PAGEFLAGS"}]

decode_page_flags(page) ==
    LET NR_PAGEFLAGS   == syms["__NR_PAGEFLAGS"]
        PAGEFLAGS_MASK == Shl(1, NR_PAGEFLAGS) - 1
    IN  [ret     |-> decode_enum_type_flags(
                         BitAnd(FlagsOf(page), PAGEFLAGS_MASK),
                         syms["enum pageflags"]),
         reads   |-> {RdFlags(page)},
         lookups |-> {"__NR_PAGEFLAGS"}]

InitFlags ==
    /\ mem = ZeroMem
    /\ \E enum \in Builds : syms = BuildSyms(enum)
    /\ cache = {}
    /\ gens = <<>>
    /\ last = Idle
    /\ loop = <<>>
    /\ tracefs = <<>>
    /\ probe = <<>>

\* the live target stores the flags word of the descriptor
TargetWriteFlags(w) ==
    /\ last.op = "idle"
    /\ FlagsOf(FlagPage) # w
    /\ mem' = [mem EXCEPT !.flags[IndexOf(FlagPage)] = w]
    /\ UNCHANGED <<syms, cache, gens, last, loop, tracefs, probe>>

CallPageFlagGetter(name) ==
    /\ last.op = "idle"
    /\ LET r == PageFlagGetter(name, FlagPage)
       IN  last' = [op |-> "PageFlag", name |-> name, arg |-> FlagPage,
                    err |-> "", ret |-> r.ret, reads |-> r.reads, lookups |-> r.lookups]
    /\ UNCHANGED <<mem, syms, cache, gens, loop, tracefs, probe>>

CallDecodePageFlags ==
    /\ last.op = "idle"
    /\ LET r == decode_page_flags(FlagPage)
       IN  last' = [op |-> "decode_page_flags", name |-> "", arg |-> FlagPage,
                    err |-> "", ret |-> r.ret, reads |-> r.reads, lookups |-> r.lookups]
    /\ UNCHANGED <<mem, syms, cache, gens, loop, tracefs, probe>>

NextFlags ==
    \/ \E w \in FlagWords : TargetWriteFlags(w)
    \/ \E name \in GetterFlags : CallPageFlagGetter(name)
    \/ CallDecodePageFlags
    \/ Return

SpecFlags == InitFlags /\ [][NextFlags]_vars

-----------------------------------------------------------------------------
(* Properties of the page flag helpers (SpecFlags). *)

\* bit number `bit` of the word `w`: (w >> bit) & 1
BitOf(w, bit) == (w \div (2 ^ bit)) % 2

\* C8: a flag getter returns false, without raising and without reading the
\* descriptor, when the target does not define the flag's enumerator;
\* otherwise it returns true exactly when bit number `bit` of the
\* descriptor's flags word is 1.
C8_FlagGetter ==
    \A name \in GetterFlags :
        LET r == PageFlagGetter(name, FlagPage)
        IN  IF name \in DOMAIN syms
            THEN r.ret = (BitOf(FlagsOf(FlagPage), syms[name]) = 1)
            ELSE r.ret = FALSE /\ r.reads = {}

\* a getter was called for a flag the target does not define while every bit
\* of the flags word is set: it returned false and read nothing
C8_Witness ==
    /\ last.op = "PageFlag"
    /\ last.name \notin DOMAIN syms
    /\ FlagsOf(last.arg) = 2 ^ FlagWordBits - 1
    /\ last.ret = FALSE
    /\ last.reads = {}

\* the decoded names are enumerators of the target below __NR_PAGEFLAGS whose
\* bit is set in the flags word, every such enumerator is listed, and no name
\* is listed twice
DecodedNamesAreSetFlags(names) ==
    LET enum == syms["enum pageflags"]
    IN  /\ \A i \in DOMAIN names :
              /\ names[i] \in EnumNames(enum)
              /\ EnumValue(enum, names[i]) < syms["__NR_PAGEFLAGS"]
              /\ BitOf(FlagsOf(FlagPage), EnumValue(enum, names[i])) = 1
        /\ \A n \in EnumNames(enum) :
              (/\ EnumValue(enum, n) < syms["__NR_PAGEFLAGS"]
               /\ BitOf(FlagsOf(FlagPage), EnumValue(enum, n)) = 1)
                  => \E i \in DOMAIN names : names[i] = n
        /\ \A i, j \in DOMAIN names : names[i] = names[j] => i = j

\* the position of the enumerator `name` in the declaration of `enum`
DeclIndex(enum, name) == CHOOSE i \in DOMAIN enum : enum[i][1] = name

-----------------------------------------------------------------------------
(* The struct page array base (_page0), its users and for_each_page.         *)

\* the largest value of max_pfn of a modelled target
MaxPfn == 3

\* what prog["contig_page_data"] can be: the flat layout's node record
FlatNodes ==
    {[node_mem_map |-> PageAddr(3), node_start_pfn |-> 1],
     [node_mem_map |-> PageAddr(1), node_start_pfn |-> 0]}

\* what prog["vmemmap"] is when the target has it
VmemmapValue == PageAddr(0)

(* What prog[...] resolves for _page0 and for_each_page: vmemmap when hasV,  *)
(* contig_page_data when `nodes` holds a node record (it holds at most one), *)
(* and the PFN bounds.                                                       *)
Page0Syms(hasV, nodes, lo, hi) ==
    [n \in {"min_low_pfn", "max_pfn"}
             \cup (IF hasV THEN {"vmemmap"} ELSE {})
             \cup (IF nodes # {} THEN {"contig_page_data"} ELSE {}) |->
        CASE n = "min_low_pfn" -> lo
          [] n = "max_pfn" -> hi
          [] n = "vmemmap" -> VmemmapValue
          [] n = "contig_page_data" -> CHOOSE c \in nodes : TRUE]

NodeChoices == {{}} \cup {{c} : c \in FlatNodes}

\* prog.cache: a set of <<key, value>> with at most one value per key
CacheHas(key) == \E e \in cache : e[1] = key

CacheGet(key) == (CHOOSE e \in cache : e[1] = key)[2]

\* _page0 that resolves and stores the base on every call
page0_uncached ==
    IF "vmemmap" \in DOMAIN syms
    THEN [ok |-> TRUE, err |-> "", ret |-> syms["vmemmap"],
          cache |-> {<<"page0", syms["vmemmap"]>>}, lookups |-> {"vmemmap"}]
    ELSE IF "contig_page_data" \notin DOMAIN syms
    THEN [ok |-> FALSE, err |-> "KeyError", ret |-> 0, cache |-> cache,
          lookups |-> {"vmemmap", "contig_page_data"}]
    ELSE LET contig_page_data == syms["contig_page_data"]
             v == PtrAdd(contig_page_data.node_mem_map,
                         0 - contig_page_data.node_start_pfn)
         IN  [ok |-> TRUE, err |-> "", ret |-> v,
              cache |-> {<<"page0", v>>},
              lookups |-> {"vmemmap", "contig_page_data"}]

\* _page0 that falls back to address 0 when neither symbol resolves
page0_default ==
    IF CacheHas("page0")
    THEN [ok |-> TRUE, err |-> "", ret |-> CacheGet("page0"), cache |-> cache,
          lookups |-> {}]
    ELSE IF "vmemmap" \in DOMAIN syms
    THEN [ok |-> TRUE, err |-> "", ret |-> syms["vmemmap"],
          cache |-> cache \cup {<<"page0", syms["vmemmap"]>>},
          lookups |-> {"vmemmap"}]
    ELSE IF "contig_page_data" \notin DOMAIN syms
    THEN [ok |-> TRUE, err |-> "", ret |-> 0,
          cache |-> cache \cup {<<"page0", 0>>},
          lookups |-> {"vmemmap", "contig_page_data"}]
    ELSE LET contig_page_data == syms["contig_page_data"]
             v == PtrAdd(contig_page_data.node_mem_map,
                         0 - contig_page_data.node_start_pfn)
         IN  [ok |-> TRUE, err |-> "", ret |-> v,
              cache |-> cache \cup {<<"page0", v>>},
              lookups |-> {"vmemmap", "contig_page_data"}]

(* _page0(prog): ok and ret are the outcome (err names the exception when    *)
(* it raises), cache is prog.cache afterwards, lookups are the names it      *)
(* asked prog[...] for.                                                      *)
page0 ==
    IF CacheHas("page0")
    THEN [ok |-> TRUE, err |-> "", ret |-> CacheGet("page0"), cache |-> cache,
          lookups |-> {}]
    ELSE IF "vmemmap" \in DOMAIN syms
    THEN [ok |-> TRUE, err |-> "", ret |-> syms["vmemmap"],
          cache |-> cache \cup {<<"page0", syms["vmemmap"]>>},
          lookups |-> {"vmemmap"}]
    ELSE IF "contig_page_data" \notin DOMAIN syms
    THEN [ok |-> FALSE, err |-> "KeyError", ret |-> 0, cache |-> cache,
          lookups |-> {"vmemmap", "contig_page_data"}]
    ELSE LET contig_page_data == syms["contig_page_data"]
             v == PtrAdd(contig_page_data.node_mem_map,
                         0 - contig_page_data.node_start_pfn)
         IN  [ok |-> TRUE, err |-> "", ret |-> v,
              cache |-> cache \cup {<<"page0", v>>},
              lookups |-> {"vmemmap", "contig_page_data"}]

\* pfn_to_page(prog, pfn): _page0(prog) + pfn
pfn_to_page(pfn) ==
    LET b == page0
    IN  IF b.ok THEN [b EXCEPT !.ret = PtrAdd(b.ret, pfn)] ELSE b

\* page_to_pfn(page): page - _page0(page.prog_), a difference of struct page *
page_to_pfn(page) ==
    LET b == page0
    IN  IF b.ok THEN [b EXCEPT !.ret = (page - b.ret) \div SizeofStructPage]
        ELSE b

\* range(prog["min_low_pfn"], prog["max_pfn"]) with the upper bound included
PfnRange_inclusive ==
    [lo |-> syms["min_low_pfn"], hi |-> syms["max_pfn"] + 1]

\* range(prog["min_low_pfn"], prog["max_pfn"]): lo <= i < hi
PfnRange == [lo |-> syms["min_low_pfn"], hi |-> syms["max_pfn"]]

\* the two generator objects of the session
GenIds == {"first", "second"}

\* no generator object
NoGen == [pc |-> "none", page0 |-> 0, i |-> 0, hi |-> 0, out |-> <<>>]

\* for_each_page(prog) returns a generator; none of its body has run
NewGen == [NoGen EXCEPT !.pc = "created"]

\* for_each_page that reads each page before it yields it, so that the
\* FaultError of an unreadable descriptor ends the generator
ForEachPageNext_validating(gen) ==
    IF gen.pc = "created"
    THEN LET b == page0
             r == PfnRange
         IN  IF ~b.ok
             THEN [gen |-> [gen EXCEPT !.pc = "failed"], cache |-> b.cache]
             ELSE IF r.lo < r.hi /\ IndexOf(PtrAdd(b.ret, r.lo)) \in mem.offline
             THEN [gen |-> [gen EXCEPT !.pc = "failed"], cache |-> b.cache]
             ELSE IF r.lo < r.hi
             THEN [gen   |-> [pc |-> "running", page0 |-> b.ret,
                              i |-> r.lo + 1, hi |-> r.hi,
                              out |-> <<PtrAdd(b.ret, r.lo)>>],
                   cache |-> b.cache]
             ELSE [gen   |-> [pc |-> "done", page0 |-> b.ret, i |-> r.lo,
                              hi |-> r.hi, out |-> <<>>],
                   cache |-> b.cache]
    ELSE IF gen.i < gen.hi /\ IndexOf(PtrAdd(gen.page0, gen.i)) \in mem.offline
    THEN [gen |-> [gen EXCEPT !.pc = "failed"], cache |-> cache]
    ELSE IF gen.i < gen.hi
    THEN [gen   |-> [gen EXCEPT !.i = gen.i + 1,
                                !.out = Append(gen.out, PtrAdd(gen.page0, gen.i))],
          cache |-> cache]
    ELSE [gen |-> [gen EXCEPT !.pc = "done"], cache |-> cache]

(* next() of a for_each_page generator `gen`: the first next() runs the body *)
(* from its start (_page0, the range) to the first yield, a later one from   *)
(* the last yield to the next; out collects what was yielded.  The generator *)
(* ends "done" by StopIteration and "failed" by the exception of _page0.     *)
ForEachPageNext(gen) ==
    IF gen.pc = "created"
    THEN LET b == page0
             r == PfnRange
         IN  IF ~b.ok
             THEN [gen |-> [gen EXCEPT !.pc = "failed"], cache |-> b.cache]
             ELSE IF r.lo < r.hi
             THEN [gen   |-> [pc |-> "running", page0 |-> b.ret,
                              i |-> r.lo + 1, hi |-> r.hi,
                              out |-> <<PtrAdd(b.ret, r.lo)>>],
                   cache |-> b.cache]
             ELSE [gen   |-> [pc |-> "done", page0 |-> b.ret, i |-> r.lo,
                              hi |-> r.hi, out |-> <<>>],
                   cache |-> b.cache]
    ELSE IF gen.i < gen.hi
    THEN [gen   |-> [gen EXCEPT !.i = gen.i + 1,
                                !.out = Append(gen.out, PtrAdd(gen.page0, gen.i))],
          cache |-> cache]
    ELSE [gen |-> [gen EXCEPT !.pc = "done"], cache |-> cache]

InitPage0 ==
    /\ mem = ZeroMem
    /\ \E hasV \in BOOLEAN, nodes \in NodeChoices, lo \in 0 .. 1,
          hi \in 0 .. MaxPfn :
          syms = Page0Syms(hasV, nodes, lo, hi)
    /\ cache = {}
    /\ gens = [g \in GenIds |-> NoGen]
    /\ last = Idle
    /\ loop = <<>>
    /\ tracefs = <<>>
    /\ probe = <<>>

(* The Metadata Accessor's answers change between helper calls: more debug   *)
(* info is loaded, or the live target rewrites its node record.              *)
AccessorChanges(hasV, nodes) ==
    /\ last.op = "idle"
    /\ syms' = Page0Syms(hasV, nodes, syms["min_low_pfn"], syms["max_pfn"])
    /\ syms' # syms
    /\ UNCHANGED <<mem, cache, gens, last, loop, tracefs, probe>>

CallPfnToPage(pfn) ==
    /\ last.op = "idle"
    /\ LET r == pfn_to_page(pfn)
       IN  /\ last' = [op |-> "pfn_to_page", name |-> "", arg |-> pfn,
                       err |-> r.err, ret |-> r.ret, reads |-> {},
                       lookups |-> r.lookups]
           /\ cache' = r.cache
    /\ UNCHANGED <<mem, syms, gens, loop, tracefs, probe>>

CallPageToPfn(page) ==
    /\ last.op = "idle"
    /\ LET r == page_to_pfn(page)
       IN  /\ last' = [op |-> "page_to_pfn", name |-> "", arg |-> page,
                       err |-> r.err, ret |-> r.ret, reads |-> {},
                       lookups |-> r.lookups]
           /\ cache' = r.cache
    /\ UNCHANGED <<mem, syms, gens, loop, tracefs, probe>>

\* a call of for_each_page(prog); the object replaces the one held as g
CallForEachPage(g) ==
    /\ last.op = "idle"
    /\ gens[g] # NewGen
    /\ gens' = [gens EXCEPT ![g] = NewGen]
    /\ UNCHANGED <<mem, syms, cache, last, loop, tracefs, probe>>

\* the caller advances the generator g
GenNext(g) ==
    /\ last.op = "idle"
    /\ gens[g].pc \in {"created", "running"}
    /\ LET r == ForEachPageNext(gens[g])
       IN  /\ gens' = [gens EXCEPT ![g] = r.gen]
           /\ cache' = r.cache
    /\ UNCHANGED <<mem, syms, last, loop, tracefs, probe>>

\* the struct page * values page_to_pfn is called on: at or above every base
PfnArgs == {PtrAdd(PageAddr(2), k) : k \in 0 .. MaxPfn}

NextPage0 ==
    \/ \E hasV \in BOOLEAN, nodes \in NodeChoices : AccessorChanges(hasV, nodes)
    \/ \E pfn \in 0 .. MaxPfn : CallPfnToPage(pfn)
    \/ \E page \in PfnArgs : CallPageToPfn(page)
    \/ \E g \in GenIds : CallForEachPage(g)
    \/ \E g \in GenIds : GenNext(g)
    \/ Return

SpecPage0 == InitPage0 /\ [][NextPage0]_vars

-----------------------------------------------------------------------------
(* Properties of _page0, its users and for_each_page (SpecPage0). *)

\* the target exposes neither vmemmap nor contig_page_data and the session
\* has not resolved the base
NoPageArray ==
    /\ "vmemmap" \notin DOMAIN syms
    /\ "contig_page_data" \notin DOMAIN syms
    /\ ~CacheHas("page0")

\* C6: when the target exposes neither vmemmap nor contig_page_data,
\* resolving the base fails (with the KeyError of the contig_page_data
\* lookup, the code's unsupported-memory-model error), returns no address
\* and leaves the cache unset, and pfn_to_page, page_to_pfn and the first
\* step of for_each_page fail with it instead of producing an address.
C6_NoLayoutFails ==
    NoPageArray =>
        /\ ~page0.ok /\ page0.err = "KeyError" /\ page0.cache = {}
        /\ "contig_page_data" \in page0.lookups
        /\ \A pfn \in 0 .. MaxPfn :
              LET r == pfn_to_page(pfn)
              IN  ~r.ok /\ r.err = "KeyError" /\ r.cache = {}
        /\ \A page \in PfnArgs :
              LET r == page_to_pfn(page)
              IN  ~r.ok /\ r.err = "KeyError" /\ r.cache = {}
        /\ \A g \in GenIds :
              gens[g].pc = "created" =>
                  LET r == ForEachPageNext(gens[g])
                  IN  r.gen.pc = "failed" /\ r.gen.out = <<>> /\ r.cache = {}

\* pfn_to_page failed and a for_each_page generator failed on its first
\* step, on a target with neither symbol, and nothing is cached
C6_Witness ==
    /\ NoPageArray
    /\ last.op = "pfn_to_page"
    /\ last.err = "KeyError"
    /\ \E g \in GenIds : gens[g].pc = "failed" /\ gens[g].out = <<>>

\* what the Metadata Accessor gives for the base now: vmemmap if present,
\* otherwise contig_page_data.node_mem_map - contig_page_data.node_start_pfn
FreshBase ==
    IF "vmemmap" \in DOMAIN syms THEN syms["vmemmap"]
    ELSE syms["contig_page_data"].node_mem_map
             - syms["contig_page_data"].node_start_pfn * SizeofStructPage

\* C7: the page-array base cache is write-once: the first successful
\* resolution stores vmemmap if present and otherwise
\* contig_page_data.node_mem_map - node_start_pfn; from then on no step
\* changes the cache and every resolution returns the cached value without
\* looking anything up, whatever the accessor would answer now.
C7_CacheWriteOnce ==
    /\ [](CacheHas("page0") =>
             /\ page0.ok
             /\ page0.ret = CacheGet("page0")
             /\ page0.lookups = {}
             /\ page0.cache = cache)
    /\ [][CacheHas("page0") => cache' = cache]_vars
    /\ [][(~CacheHas("page0") /\ cache' # cache) =>
             cache' = {<<"page0", FreshBase>>}]_vars

\* pfn_to_page returned cached base + pfn without a lookup while the
\* accessor would now resolve another base
C7_Witness ==
    /\ CacheHas("page0")
    /\ last.op = "pfn_to_page"
    /\ last.lookups = {}
    /\ last.ret = CacheGet("page0") + last.arg * SizeofStructPage
    /\ \/ "vmemmap" \in DOMAIN syms
       \/ "contig_page_data" \in DOMAIN syms
    /\ FreshBase # CacheGet("page0")

\* the descriptors of the PFNs min_low_pfn <= p < max_pfn in ascending order
ExpectedPages ==
    LET lo == syms["min_low_pfn"]
        hi == syms["max_pfn"]
    IN  [k \in 1 .. (IF lo < hi THEN hi - lo ELSE 0) |->
            CacheGet("page0") + (lo + k - 1) * SizeofStructPage]

\* C10: a for_each_page generator yields, in ascending PFN order and each
\* once, page_array_base + p for every PFN p with min_low_pfn <= p < max_pfn
\* and nothing else, then ends (yielding nothing when min_low_pfn >=
\* max_pfn); every generator does so from min_low_pfn, however far another
\* one has advanced.
C10_ForEachPage ==
    \A g \in GenIds :
        /\ gens[g].pc = "running" =>
              /\ CacheHas("page0")
              /\ Len(gens[g].out) >= 1
              /\ Len(gens[g].out) <= Len(ExpectedPages)
              /\ gens[g].out = SubSeq(ExpectedPages, 1, Len(gens[g].out))
        /\ gens[g].pc = "done" =>
              /\ CacheHas("page0")
              /\ Len(gens[g].out) = Len(ExpectedPages)
              /\ \A k \in 1 .. Len(ExpectedPages) :
                    gens[g].out[k] = ExpectedPages[k]

\* one generator has ended after yielding every page of a range of at least
\* two PFNs with min_low_pfn > 0, and a later one has started over from
\* min_low_pfn
C10_Witness ==
    /\ syms["min_low_pfn"] > 0
    /\ gens["first"].pc = "done"
    /\ Len(gens["first"].out) >= 2
    /\ gens["second"].pc = "running"
    /\ Len(gens["second"].out) = 1
    /\ gens["second"].out[1] = gens["first"].out[1]

-----------------------------------------------------------------------------
(* PageCompound against PageHead and PageTail (SpecCompound). *)

\* C15: on an unchanged target memory PageCompound(page) is true if and only
\* if PageHead(page) or PageTail(page) is true; a descriptor is standalone
\* (neither head nor tail) exactly when its PG_head bit is clear and its own
\* compound_head word is untagged, whatever the next descriptor holds.
C15_CompoundIffHeadOrTail ==
    \A page \in Pages :
        /\ PageCompound(page).ret = (PageHead(page).ret \/ PageTail(page).ret)
        /\ (~PageHead(page).ret /\ ~PageTail(page).ret)
               = (HeadFlag(page) = 0 /\ HeadOf(page) % 2 = 0)

\* PageCompound was called on an ordinary tail (PG_head clear, own word
\* tagged) that is not a head: it answered true, and so does PageTail
C15_Witness ==
    /\ last.op = "PageCompound"
    /\ HeadFlag(last.arg) = 0
    /\ HeadOf(last.arg) % 2 = 1
    /\ last.ret = TRUE
    /\ ~PageHead(last.arg).ret
    /\ PageTail(last.arg).ret

-----------------------------------------------------------------------------
(* A caller iterating over for_each_page(prog) as its docstring shows:       *)
(*     for page in for_each_page(prog):                                      *)
(*         try:                                                              *)
(*             if PageLRU(page): ...                                         *)
(*         except drgn.FaultError:                                           *)
(*             continue                                                      *)
(* on a target some of whose struct pages cannot be read.                    *)

\* the number of PFNs of the enumerated range
EnumPfns == 10

\* the target of the loop: vmemmap, the PFN range and PG_lru
EnumSyms == Page0Syms(TRUE, {}, 0, EnumPfns) @@ [PG_lru |-> 1]

\* the struct page array of the loop's target; the descriptors of the PFNs in
\* `offline` are not backed by memory
EnumMem(offline) ==
    [flags   |-> [i \in 0 .. (EnumPfns - 1) |-> Shl(1, EnumSyms["PG_lru"])],
     offline |-> offline]

(* The memory reader of the session: a read of a descriptor that is not      *)
(* backed by memory raises drgn.FaultError.                                  *)
ReadFaults(reads) == \E rd \in reads : IndexOf(rd[2]) \in mem.offline

\* PageLRU(page) as the loop runs it: its value, or the FaultError of its read
TryPageLRU(page) ==
    LET r == PageFlagGetter("PG_lru", page)
    IN  IF ReadFaults(r.reads)
        THEN [err |-> "FaultError", ret |-> FALSE]
        ELSE [err |-> "", ret |-> r.ret]

\* the loop has not called for_each_page yet
NoLoop ==
    [pc |-> "start", gen |-> NoGen, page |-> 0, seen |-> <<>>, good |-> <<>>,
     faults |-> 0]

InitEnum ==
    /\ \E offline \in SUBSET (0 .. (EnumPfns - 1)) : mem = EnumMem(offline)
    /\ syms = EnumSyms
    /\ cache = {}
    /\ gens = <<>>
    /\ last = Idle
    /\ loop = NoLoop
    /\ tracefs = <<>>
    /\ probe = <<>>

\* for_each_page(prog) is called: the for statement holds its generator
LoopCall ==
    /\ loop.pc = "start"
    /\ loop' = [loop EXCEPT !.pc = "next", !.gen = NewGen]
    /\ UNCHANGED <<mem, syms, cache, gens, last, tracefs, probe>>

\* the for statement advances the generator: a page for the body, the end of
\* the loop, or the exception the generator raised
LoopNext ==
    /\ loop.pc = "next"
    /\ LET r == ForEachPageNext(loop.gen)
       IN  /\ cache' = r.cache
           /\ loop' =
                 IF r.gen.pc = "running"
                 THEN [loop EXCEPT !.pc = "body", !.gen = r.gen,
                                   !.page = r.gen.out[Len(r.gen.out)],
                                   !.seen = Append(loop.seen,
                                                r.gen.out[Len(r.gen.out)])]
                 ELSE IF r.gen.pc = "done"
                 THEN [loop EXCEPT !.pc = "end", !.gen = r.gen]
                 ELSE [loop EXCEPT !.pc = "raised", !.gen = r.gen]
    /\ UNCHANGED <<mem, syms, gens, last, tracefs, probe>>

\* the body: PageLRU(page), skipping the page when the read faults
LoopBody ==
    /\ loop.pc = "body"
    /\ LET r == TryPageLRU(loop.page)
       IN  loop' =
              IF r.err = "FaultError"
              THEN [loop EXCEPT !.pc = "next", !.faults = loop.faults + 1]
              ELSE [loop EXCEPT !.pc = "next",
                                !.good = Append(loop.good, loop.page)]
    /\ UNCHANGED <<mem, syms, cache, gens, last, tracefs, probe>>

NextEnum ==
    \/ LoopCall
    \/ LoopNext
    \/ LoopBody

SpecEnum == InitEnum /\ [][NextEnum]_vars

\* the descriptor address of a PFN of the loop's target
EnumPage(pfn) == EnumSyms["vmemmap"] + pfn * SizeofStructPage

\* the PFNs of the range whose descriptor read faults
FaultingPfns ==
    {p \in syms["min_low_pfn"] .. (syms["max_pfn"] - 1) : p \in mem.offline}

\* C11: a FaultError raised when the caller dereferences a yielded descriptor
\* neither ends nor disturbs the enumeration: for every set of faulting PFNs
\* the loop that skips faults is handed the descriptor of every PFN of the
\* range, in order, up to the last one; exactly the non-faulting ones are
\* dereferenced successfully, and the generator itself never raises.
C11_FaultsDoNotEndEnumeration ==
    /\ loop.pc # "raised"
    /\ \A k \in DOMAIN loop.seen :
          loop.seen[k] = EnumPage(syms["min_low_pfn"] + k - 1)
    /\ Len(loop.good) + loop.faults
          = Len(loop.seen) - (IF loop.pc = "body" THEN 1 ELSE 0)
    /\ \A k \in DOMAIN loop.good : IndexOf(loop.good[k]) \notin mem.offline
    /\ loop.pc = "end" =>
          /\ Len(loop.seen) = syms["max_pfn"] - syms["min_low_pfn"]
          /\ loop.faults = Cardinality(FaultingPfns)
          /\ Len(loop.good) = Len(loop.seen) - Cardinality(FaultingPfns)

\* the loop over 10 PFNs of which only PFN 5 faults has ended: 9 successful
\* dereferences, and the descriptor of PFN 9 was the last one handed out
C11_Witness ==
    /\ loop.pc = "end"
    /\ syms["max_pfn"] - syms["min_low_pfn"] = 10
    /\ mem.offline = {5}
    /\ Len(loop.good) = 9
    /\ loop.faults = 1
    /\ loop.seen[Len(loop.seen)] = EnumPage(9)
    /\ loop.good[Len(loop.good)] = EnumPage(9)

-----------------------------------------------------------------------------
(* The address conversions: PFN_PHYS, PHYS_PFN, phys_to_virt, virt_to_phys,  *)
(* page_size and the conversions composed from them.                         *)

(* Bits of unsigned long, void * and phys_addr_t in the model.  The three    *)
(* have one width on the targets the module supports (AArch64, s390x and     *)
(* x86-64, where it is 64).                                                  *)
WordBits == 24

\* Object(prog, "unsigned long", x): x converted to the type
ULong(x) == x % (2 ^ WordBits)

\* Object(prog, "phys_addr_t", x)
PhysAddr(x) == x % (2 ^ WordBits)

\* Object(prog, "void *", x)
VoidPtr(x) == x % (2 ^ WordBits)

RECURSIVE ShlWord(_, _)
\* x << n on an object of WordBits bits: the bits shifted out are lost
ShlWord(x, n) == IF n = 0 THEN x ELSE ShlWord((x * 2) % (2 ^ WordBits), n - 1)

\* a helper returned v
Ok(v) == [ok |-> TRUE, err |-> "", ret |-> v, cache |-> cache]

\* a helper raised the exception e
Raise(e) == [ok |-> FALSE, err |-> e, ret |-> 0, cache |-> cache]

\* prog[name]
Lookup(name) ==
    IF name \in DOMAIN syms THEN Ok(syms[name]) ELSE Raise("KeyError")

(* _linux_helper_direct_mapping_offset(prog): the offset of the direct       *)
(* mapping, or an exception when it cannot be determined for the target.     *)
direct_mapping_offset ==
    IF "direct_mapping_offset" \in DOMAIN syms
    THEN Ok(syms["direct_mapping_offset"])
    ELSE Raise("MetadataUnavailable")

\* f(a) for a helper result a: the exception of a, or b with a's cache kept
AndThen(a, b) == IF a.ok THEN [b EXCEPT !.cache = a.cache] ELSE a

\* PFN_PHYS with 12 used as the shift when the target gives no PAGE_SHIFT
PFN_PHYS_default_shift(pfn) ==
    IF "PAGE_SHIFT" \in DOMAIN syms
    THEN Ok(ShlWord(PhysAddr(pfn), syms["PAGE_SHIFT"]))
    ELSE Ok(ShlWord(PhysAddr(pfn), 12))

PFN_PHYS(pfn) ==
    LET shift == Lookup("PAGE_SHIFT")
    IN  IF shift.ok THEN Ok(ShlWord(PhysAddr(pfn), shift.ret)) ELSE shift

\* PHYS_PFN that shifts to the left
PHYS_PFN_shl(addr) ==
    LET shift == Lookup("PAGE_SHIFT")
    IN  IF shift.ok THEN Ok(ShlWord(ULong(addr), shift.ret)) ELSE shift

PHYS_PFN(addr) ==
    LET shift == Lookup("PAGE_SHIFT")
    IN  IF shift.ok THEN Ok(ULong(addr) \div (2 ^ shift.ret)) ELSE shift

phys_to_virt(addr) ==
    LET off == direct_mapping_offset
    IN  IF off.ok THEN Ok(VoidPtr(addr + off.ret)) ELSE off

\* virt_to_phys that adds the offset
virt_to_phys_add(addr) ==
    LET off == direct_mapping_offset
    IN  IF off.ok THEN Ok(ULong(addr + off.ret)) ELSE off

virt_to_phys(addr) ==
    LET off == direct_mapping_offset
    IN  IF off.ok THEN Ok(ULong(addr - off.ret)) ELSE off

\* _page0-based helpers as results of the same shape
PfnToPage(pfn) ==
    LET r == pfn_to_page(pfn)
    IN  [ok |-> r.ok, err |-> r.err, ret |-> r.ret, cache |-> r.cache]

PageToPfn(page) ==
    LET r == page_to_pfn(page)
    IN  [ok |-> r.ok, err |-> r.err, ret |-> ULong(r.ret), cache |-> r.cache]

\* page_to_phys(page): PFN_PHYS(page_to_pfn(page))
page_to_phys(page) ==
    LET pfn == PageToPfn(page)
    IN  IF pfn.ok THEN AndThen(pfn, PFN_PHYS(pfn.ret)) ELSE pfn

\* pfn_to_virt(pfn): phys_to_virt(PFN_PHYS(pfn))
pfn_to_virt(pfn) ==
    LET phys == PFN_PHYS(pfn)
    IN  IF phys.ok THEN phys_to_virt(phys.ret) ELSE phys

\* page_to_virt(page): pfn_to_virt(page_to_pfn(page))
page_to_virt(page) ==
    LET pfn == PageToPfn(page)
    IN  IF pfn.ok THEN AndThen(pfn, pfn_to_virt(pfn.ret)) ELSE pfn

\* virt_to_pfn(addr): PHYS_PFN(virt_to_phys(addr))
virt_to_pfn(addr) ==
    LET phys == virt_to_phys(addr)
    IN  IF phys.ok THEN PHYS_PFN(phys.ret) ELSE phys

\* phys_to_page(addr): pfn_to_page(PHYS_PFN(addr))
phys_to_page(addr) ==
    LET pfn == PHYS_PFN(addr)
    IN  IF pfn.ok THEN PfnToPage(pfn.ret) ELSE pfn

\* virt_to_page(addr): pfn_to_page(virt_to_pfn(addr))
virt_to_page(addr) ==
    LET pfn == virt_to_pfn(addr)
    IN  IF pfn.ok THEN PfnToPage(pfn.ret) ELSE pfn

\* page_size(page): prog["PAGE_SIZE"] << compound_order(page)
page_size(page) ==
    LET size == Lookup("PAGE_SIZE")
    IN  IF size.ok THEN Ok(ShlWord(size.ret, compound_order(page).ret))
        ELSE size

-----------------------------------------------------------------------------
(* The session and the targets of the address conversions. *)

\* the values of PAGE_SHIFT of the modelled targets
PageShifts == {12, 16}

\* the direct mapping offsets of the modelled targets: the upper half of the
\* address space, and an offset that makes addr + offset wrap
Offsets == {2 ^ (WordBits - 1), 2 ^ WordBits - 2 ^ 20}

(* What a target resolves: PAGE_SHIFT when shifts holds it, PAGE_SIZE when   *)
(* hasSize, the direct mapping offset when offs holds it; max_pfn is the     *)
(* end of the populated range.                                               *)
ArithSyms(shifts, hasSize, offs, maxpfn) ==
    [n \in {"vmemmap", "min_low_pfn", "max_pfn", "PG_head"}
             \cup (IF shifts # {} THEN {"PAGE_SHIFT"} ELSE {})
             \cup (IF hasSize THEN {"PAGE_SIZE"} ELSE {})
             \cup (IF offs # {} THEN {"direct_mapping_offset"} ELSE {}) |->
        CASE n = "vmemmap" -> VmemmapValue
          [] n = "min_low_pfn" -> 1
          [] n = "max_pfn" -> maxpfn
          [] n = "PG_head" -> CompoundSyms["PG_head"]
          [] n = "PAGE_SHIFT" -> CHOOSE x \in shifts : TRUE
          [] n = "PAGE_SIZE" ->
                 IF shifts # {} THEN 2 ^ (CHOOSE x \in shifts : TRUE)
                 ELSE 2 ^ 12
          [] n = "direct_mapping_offset" -> CHOOSE x \in offs : TRUE]

(* The ends of the populated range of a target: a PFN has a physical address *)
(* that phys_addr_t holds, so max_pfn is at most 2^(WordBits - PAGE_SHIFT).  *)
MaxPfns(shifts) ==
    {129} \cup {2 ^ (WordBits - x) : x \in shifts}

\* the arguments the conversions are called with
PfnInputs ==
    {0, 1, 256, 2 ^ WordBits + 1}
        \cup {2 ^ (WordBits - x) - 1 : x \in PageShifts}
        \cup {2 ^ (WordBits - x) : x \in PageShifts}

AddrInputs ==
    {0, 4095, 4096, 2 ^ 20, 2 ^ WordBits - 1, 2 ^ WordBits + 4096}

VirtInputs ==
    {0, 2 ^ 20} \cup {VoidPtr(2 ^ 20 + off) : off \in Offsets}
        \cup {VoidPtr(4095 + off) : off \in Offsets}

ArithPages == {PtrAdd(VmemmapValue, k) : k \in {0, 1, 256}}

InitArith ==
    /\ mem = ZeroMem
    /\ \E shifts \in {{}} \cup {{x} : x \in PageShifts}, hasSize \in BOOLEAN,
          offs \in {{}} \cup {{x} : x \in Offsets} :
          \E maxpfn \in MaxPfns(shifts) :
              syms = ArithSyms(shifts, hasSize, offs, maxpfn)
    /\ cache = {}
    /\ gens = <<>>
    /\ last = Idle
    /\ loop = <<>>
    /\ tracefs = <<>>
    /\ probe = <<>>

\* the conversion `op` is called with `arg` and ends as r
CallConv(op, arg, r) ==
    /\ last.op = "idle"
    /\ last' = [op |-> op, name |-> "", arg |-> arg, err |-> r.err,
                ret |-> r.ret, reads |-> {}, lookups |-> {}]
    /\ cache' = r.cache
    /\ UNCHANGED <<mem, syms, gens, loop, tracefs, probe>>

Call_PFN_PHYS(pfn) == CallConv("PFN_PHYS", pfn, PFN_PHYS(pfn))

Call_PHYS_PFN(addr) == CallConv("PHYS_PFN", addr, PHYS_PFN(addr))

Call_phys_to_virt(addr) == CallConv("phys_to_virt", addr, phys_to_virt(addr))

Call_virt_to_phys(addr) == CallConv("virt_to_phys", addr, virt_to_phys(addr))

Call_page_to_phys(page) == CallConv("page_to_phys", page, page_to_phys(page))

Call_pfn_to_virt(pfn) == CallConv("pfn_to_virt", pfn, pfn_to_virt(pfn))

Call_page_to_virt(page) == CallConv("page_to_virt", page, page_to_virt(page))

Call_virt_to_pfn(addr) == CallConv("virt_to_pfn", addr, virt_to_pfn(addr))

Call_phys_to_page(addr) == CallConv("phys_to_page", addr, phys_to_page(addr))

Call_virt_to_page(addr) == CallConv("virt_to_page", addr, virt_to_page(addr))

Call_page_size(page) == CallConv("page_size", page, page_size(page))

NextArith ==
    \/ \E pfn \in PfnInputs : Call_PFN_PHYS(pfn)
    \/ \E addr \in AddrInputs : Call_PHYS_PFN(addr)
    \/ \E addr \in AddrInputs : Call_phys_to_virt(addr)
    \/ \E addr \in VirtInputs : Call_virt_to_phys(addr)
    \/ \E page \in ArithPages : Call_page_to_phys(page)
    \/ \E pfn \in PfnInputs : Call_pfn_to_virt(pfn)
    \/ \E page \in ArithPages : Call_page_to_virt(page)
    \/ \E addr \in VirtInputs : Call_virt_to_pfn(addr)
    \/ \E addr \in AddrInputs : Call_phys_to_page(addr)
    \/ \E addr \in VirtInputs : Call_virt_to_page(addr)
    \/ \E page \in Pages : Call_page_size(page)
    \/ Return

SpecArith == InitArith /\ [][NextArith]_vars

-----------------------------------------------------------------------------
(* Properties of the address conversions. *)

\* the PFNs of PfnInputs that are valid PFNs of the populated range
ValidPfns ==
    {p \in PfnInputs : syms["min_low_pfn"] <= p /\ p < syms["max_pfn"]}

\* C12: PFN_PHYS(pfn) is pfn << PAGE_SHIFT in the width of phys_addr_t (its
\* low PAGE_SHIFT bits are zero and the bits above them are the low bits of
\* pfn), PHYS_PFN(addr) is addr >> PAGE_SHIFT in the width of unsigned long,
\* PHYS_PFN(PFN_PHYS(p)) = p for every valid PFN p of the populated range, and
\* with PAGE_SHIFT = 12, PFN_PHYS(0x100) = 0x100000.
C12_PfnPhysRoundTrip ==
    "PAGE_SHIFT" \in DOMAIN syms =>
        LET s == syms["PAGE_SHIFT"]
        IN  /\ last.op = "PFN_PHYS" =>
                /\ last.err = ""
                /\ last.ret < 2 ^ WordBits
                /\ last.ret % (2 ^ s) = 0
                /\ last.ret \div (2 ^ s) = last.arg % (2 ^ (WordBits - s))
            /\ last.op = "PHYS_PFN" =>
                /\ last.err = ""
                /\ last.ret = (last.arg % (2 ^ WordBits)) \div (2 ^ s)
            /\ \A p \in ValidPfns :
                  /\ PFN_PHYS(p).ok
                  /\ PHYS_PFN(PFN_PHYS(p).ret).ok
                  /\ PHYS_PFN(PFN_PHYS(p).ret).ret = p
            /\ s = 12 => PFN_PHYS(256).ret = 1048576

\* PFN_PHYS(0x100) returned 0x100000 on a target with PAGE_SHIFT = 12 whose
\* populated range ends at the last PFN phys_addr_t can address, and that
\* last PFN is one of the PFNs the round trip is checked for
C12_Witness ==
    /\ "PAGE_SHIFT" \in DOMAIN syms
    /\ syms["PAGE_SHIFT"] = 12
    /\ syms["max_pfn"] = 2 ^ (WordBits - 12)
    /\ 2 ^ (WordBits - 12) - 1 \in ValidPfns
    /\ last.op = "PFN_PHYS"
    /\ last.arg = 256
    /\ last.err = ""
    /\ last.ret = 1048576

\* C13: phys_to_virt(addr) is addr + D and virt_to_phys(phys_to_virt(addr)) is
\* addr, for every physical address addr and direct mapping offset D, with the
\* sum and the difference taken in the width of void * and unsigned long.
C13_PhysVirtRoundTrip ==
    "direct_mapping_offset" \in DOMAIN syms =>
        LET D == syms["direct_mapping_offset"]
        IN  /\ last.op = "phys_to_virt" =>
                /\ last.err = ""
                /\ last.ret = (last.arg + D) % (2 ^ WordBits)
            /\ last.op = "virt_to_phys" =>
                /\ last.err = ""
                /\ last.ret >= 0
                /\ last.ret < 2 ^ WordBits
                /\ (last.ret + D) % (2 ^ WordBits) = last.arg
            /\ \A addr \in AddrInputs :
                  addr < 2 ^ WordBits =>
                      /\ phys_to_virt(addr).ok
                      /\ virt_to_phys(phys_to_virt(addr).ret).ok
                      /\ virt_to_phys(phys_to_virt(addr).ret).ret = addr

\* virt_to_phys was called with phys_to_virt(0x100000), which is 0x100000 + D
\* without a wrap, and returned 0x100000
C13_Witness ==
    /\ "direct_mapping_offset" \in DOMAIN syms
    /\ last.op = "virt_to_phys"
    /\ last.arg = 1048576 + syms["direct_mapping_offset"]
    /\ last.arg = phys_to_virt(1048576).ret
    /\ last.err = ""
    /\ last.ret = 1048576

\* the exceptions of a constant that the target does not resolve
MetadataUnavailable == {"KeyError", "MetadataUnavailable"}

\* the architecture constants a conversion consumes
Consumes(op) ==
    CASE op \in {"PFN_PHYS", "PHYS_PFN", "page_to_phys", "phys_to_page"} ->
             {"PAGE_SHIFT"}
      [] op \in {"phys_to_virt", "virt_to_phys"} -> {"direct_mapping_offset"}
      [] op \in {"pfn_to_virt", "page_to_virt", "virt_to_pfn", "virt_to_page"} ->
             {"PAGE_SHIFT", "direct_mapping_offset"}
      [] op = "page_size" -> {"PAGE_SIZE"}
      [] OTHER -> {}

\* C14: a conversion called on a target that does not resolve a constant the
\* conversion consumes (PAGE_SHIFT, PAGE_SIZE or the direct mapping offset)
\* ends with the exception of the failed resolution and returns no value.
C14_MissingConstantFails ==
    Consumes(last.op) \ DOMAIN syms # {} =>
        /\ last.err \in MetadataUnavailable
        /\ last.ret = 0

\* page_to_virt was called on a target that resolves the direct mapping offset
\* but not PAGE_SHIFT, and ended with the exception of the lookup
C14_Witness ==
    /\ last.op = "page_to_virt"
    /\ "PAGE_SHIFT" \notin DOMAIN syms
    /\ "direct_mapping_offset" \in DOMAIN syms
    /\ last.err = "KeyError"

-----------------------------------------------------------------------------
(* ftrace.py: a Kprobe, its registration in tracefs, and the with statement  *)
(* that uses it as a context manager.                                        *)
(*   tracefs  the writes made to files of the tracing directory, in order:   *)
(*            records [path, contents]                                       *)
(*   probe    the Kprobe object and the script using it: created is the      *)
(*            _created attribute, pc is "out" (no with statement running),   *)
(*            "body" (inside the with block) or "left" (the with statement   *)
(*            has just been left), err the exception of the last operation   *)

\* the longest sequence of writes of a behaviour
MaxWrites == 5

\* Kprobe("myprobe", "do_sys_open"): probe_name, location, no fetchargs
ProbeName == "myprobe"

\* Kprobe.__str__: p:{probe_name} {location} {fetchargs}
Kprobe_str == "p:myprobe do_sys_open "

\* the line written by Kprobe.destroy: -:{probe_name}\n
RemovalLine == "-:myprobe\n"

\* the instance arguments of enable and disable: None, or FtraceInstance("inst")
Instances == {"None", "inst"}

\* the enable file of the probe, of the top level or of an instance
EnablePath(instance) ==
    IF instance = "None" THEN "events/myprobe/enable"
    ELSE "instances/inst/events/myprobe/enable"

\* append_tracefs(path, contents)
append_tracefs(path, contents) ==
    Append(tracefs, [path |-> path, contents |-> contents])

\* write_tracefs(path, contents)
write_tracefs(path, contents) ==
    Append(tracefs, [path |-> path, contents |-> contents])

\* a method returned, leaving the object and the files as given
Returned(created, fs) ==
    [err |-> "", created |-> created, tracefs |-> fs]

\* a method raised e, leaving the object and the files as they were
Raised(e) == [err |-> e, created |-> probe.created, tracefs |-> tracefs]

\* Kprobe.create
create ==
    IF probe.created THEN Raised("AssertionError")
    ELSE Returned(TRUE, append_tracefs("kprobe_events", Kprobe_str))

\* Kprobe.destroy
destroy ==
    IF probe.created
    THEN Returned(FALSE, append_tracefs("kprobe_events", RemovalLine))
    ELSE Returned(probe.created, tracefs)

\* _Probe.enable
enable(instance) ==
    IF ~probe.created THEN Raised("AssertionError")
    ELSE Returned(probe.created, write_tracefs(EnablePath(instance), "1"))

\* _Probe.disable
disable(instance) ==
    IF probe.created
    THEN Returned(probe.created, write_tracefs(EnablePath(instance), "0"))
    ELSE Returned(probe.created, tracefs)

\* _Probe.__enter__
Probe_enter == create

(* _Probe.__exit__ called with the positional arguments args: the method is  *)
(* declared with self only, so a call that passes any argument raises        *)
(* TypeError before its body runs.                                           *)
Probe_exit(args) ==
    IF Len(args) # 0 THEN Raised("TypeError") ELSE destroy

\* what the with statement passes to __exit__: exc_type, exc_value, traceback
WithExitArgs(exc) ==
    IF exc = "" THEN <<"None", "None", "None">>
    ELSE <<exc, "value", "traceback">>

\* how the body of the with block ends: normally, or with an exception
BodyOutcomes == {"", "Exception"}

InitProbe ==
    /\ mem = ZeroMem
    /\ syms = CompoundSyms
    /\ cache = {}
    /\ gens = <<>>
    /\ last = Idle
    /\ loop = <<>>
    /\ tracefs = <<>>
    /\ probe = [created |-> FALSE, pc |-> "out", err |-> ""]

\* a method ended as r, and the script is at pc afterwards
ProbeStep(r, pc) ==
    /\ Len(tracefs) < MaxWrites
    /\ probe' = [created |-> r.created, pc |-> pc, err |-> r.err]
    /\ tracefs' = r.tracefs
    /\ UNCHANGED <<mem, syms, cache, gens, last, loop>>

\* where the script is after a statement that is a plain method call
AfterCall == IF probe.pc = "body" THEN "body" ELSE "out"

CallCreate == ProbeStep(create, AfterCall)

CallDestroy == ProbeStep(destroy, AfterCall)

CallEnable(instance) == ProbeStep(enable(instance), AfterCall)

CallDisable(instance) == ProbeStep(disable(instance), AfterCall)

\* probe.__exit__() called as a plain method, with no argument
CallExit == ProbeStep(Probe_exit(<<>>), AfterCall)

(* `with probe:` is reached: __enter__ runs, and the block is entered unless *)
(* it raised.                                                                *)
WithEnter ==
    /\ probe.pc # "body"
    /\ ProbeStep(Probe_enter, IF Probe_enter.err = "" THEN "body" ELSE "out")

(* The with block ends, normally or with the exception exc, and the with     *)
(* statement calls __exit__(exc_type, exc_value, traceback).                 *)
WithLeave(exc) ==
    /\ probe.pc = "body"
    /\ ProbeStep(Probe_exit(WithExitArgs(exc)), "left")

NextProbe ==
    \/ CallCreate
    \/ CallDestroy
    \/ \E instance \in Instances : CallEnable(instance)
    \/ \E instance \in Instances : CallDisable(instance)
    \/ CallExit
    \/ WithEnter
    \/ \E exc \in BodyOutcomes : WithLeave(exc)

SpecProbe == InitProbe /\ [][NextProbe]_vars

\* the writes made to kprobe_events with the contents c
EventLines(c) ==
    {k \in DOMAIN tracefs :
        tracefs[k].path = "kprobe_events" /\ tracefs[k].contents = c}

\* registrations written that no removal has followed
Outstanding ==
    Cardinality(EventLines(Kprobe_str)) - Cardinality(EventLines(RemovalLine))

\* the created flag is true exactly when a registration is outstanding
CreatedIffOutstanding ==
    /\ Outstanding \in {0, 1}
    /\ probe.created <=> Outstanding = 1

\* C16: when the with statement has just been left, the last write is the
\* removal line of the probe, no registration is outstanding and the created
\* flag is false; and at all times the created flag is true exactly when a
\* registration is outstanding.
C16_WithRemovesProbe ==
    /\ probe.pc = "left" =>
          /\ ~probe.created
          /\ Outstanding = 0
          /\ tracefs # <<>>
          /\ tracefs[Len(tracefs)].contents = RemovalLine
    /\ CreatedIffOutstanding

\* `with Kprobe(...): pass` has been left by the TypeError of __exit__: the
\* only write is the registration, and the created flag is still true
C16_Witness ==
    /\ probe.pc = "left"
    /\ probe.err = "TypeError"
    /\ probe.created
    /\ tracefs = <<[path |-> "kprobe_events", contents |-> Kprobe_str]>>

====
